---- MODULE Spec2Model ----
(***************************************************************************)
(* A model of the sqlx-helper-macros procedural macros (src/lib.rs): the   *)
(* declaration parser, the return-type classifier, the query-string        *)
(* builder, make_fn and the two entry points database! and transaction!.   *)
(*                                                                         *)
(* Text is a sequence of one-character strings, so that formatting and     *)
(* concatenation are computed and can be inspected character by character. *)
(* A panic or a parse error of the Rust code is an explicit outcome of the *)
(* operator that models the panicking function.                            *)
(***************************************************************************)
EXTENDS Naturals, Sequences, FiniteSets

VARIABLES
    pc,         \* position of the macro expansion / of the function under study
    entry,      \* "database" or "transaction": the entry point that was invoked
    decls,      \* the declarations as written (each a token sequence)
    input,      \* the ParseStream: tokens not yet consumed
    functions,  \* Database.functions, then the part of it not yet generated
    items,      \* imp.items
    output,     \* the TokenStream the macro returns (or the abort that replaces it)
    qName,      \* query_for_fn: argument name
    qArgs,      \* query_for_fn: argument args
    qOut,       \* query_for_fn: returned String
    value,      \* ReturnType::from: argument value (a syn::ReturnType)
    shape       \* ReturnType::from: the result (or the panic)

vars == <<pc, entry, decls, input, functions, items, output,
          qName, qArgs, qOut, value, shape>>

----------------------------------------------------------------------------
(* Bounds of the model.                                                    *)

\* longest declaration list handed to an entry point
MaxDecls == 2

\* largest arity given to query_for_fn on its own (two-digit placeholders occur)
MaxArity == 11

----------------------------------------------------------------------------
(* Types (syn::Type), reduced to what the classifier reads: the kind of    *)
(* the type and, for a path, its segments with their arguments.            *)

NoType == [kind |-> "None", segs |-> <<>>]

NoArgs == [k |-> "None", args |-> <<>>]

AngleBracketed(list) == [k |-> "AngleBracketed", args |-> list]

Parenthesized == [k |-> "Parenthesized", args |-> <<>>]

TypeArg(ty) == [k |-> "Type", ty |-> ty]

LifetimeArg == [k |-> "Lifetime", ty |-> NoType]

Segment(ident, arguments) == [ident |-> ident, arguments |-> arguments]

Path(segs) == [kind |-> "Path", segs |-> segs]

Named(ident) == Path(<<Segment(ident, NoArgs)>>)

Generic(ident, ty) == Path(<<Segment(ident, AngleBracketed(<<TypeArg(ty)>>))>>)

UnitType == [kind |-> "Tuple", segs |-> <<>>]

OtherType(kind) == [kind |-> kind, segs |-> <<>>]

SynDefault == [k |-> "Default", ty |-> NoType]

SynType(ty) == [k |-> "Type", ty |-> ty]

----------------------------------------------------------------------------
(* The classifier.                                                         *)

FIELD_TYPES == {"bool", "i8", "i16", "i32", "i64", "f32", "f64", "String"}

Panic(msg) == [ok |-> FALSE, tag |-> "Panic", ty |-> NoType, msg |-> msg]

Classified(tag, ty) == [ok |-> TRUE, tag |-> tag, ty |-> ty, msg |-> ""]

\* First generic argument of a segment; panics unless the segment has an
\* angle-bracketed argument list whose first argument is a type.
extract_generic_arg(segment) ==
    IF segment.arguments.k # "AngleBracketed"
    THEN Panic("Expected angle bracketed arguments")
    ELSE IF Len(segment.arguments.args) = 0
    THEN Panic("called Option::unwrap() on a None value")
    ELSE IF segment.arguments.args[1].k # "Type"
    THEN Panic("Expected a type")
    ELSE Classified("Arg", segment.arguments.args[1].ty)

Wrapped(tag, segment) ==
    LET r == extract_generic_arg(segment)
    IN  IF r.ok THEN Classified(tag, r.ty) ELSE r

\* a classifier without the scalar names: they fall through to Row
FromWithoutFields(v) ==
    IF v.k = "Default" THEN Classified("Default", NoType)
    ELSE IF v.ty.kind = "Path"
    THEN LET segment == v.ty.segs[1]
         IN  IF segment.ident = "Option" THEN Wrapped("Optional", segment)
             ELSE IF segment.ident = "Stream" THEN Wrapped("Stream", segment)
             ELSE IF segment.ident = "Vec" THEN Wrapped("Rows", segment)
             ELSE Classified("Row", v.ty)
    ELSE Classified("Row", v.ty)

\* a classifier that reads the last segment of the path instead of the first
FromLastSegment(v) ==
    IF v.k = "Default" THEN Classified("Default", NoType)
    ELSE IF v.ty.kind = "Path"
    THEN LET segment == v.ty.segs[Len(v.ty.segs)]
         IN  IF segment.ident = "Option" THEN Wrapped("Optional", segment)
             ELSE IF segment.ident = "Stream" THEN Wrapped("Stream", segment)
             ELSE IF segment.ident = "Vec" THEN Wrapped("Rows", segment)
             ELSE IF segment.ident \in FIELD_TYPES THEN Classified("Field", v.ty)
             ELSE Classified("Row", v.ty)
    ELSE Classified("Row", v.ty)

From(v) ==
    IF v.k = "Default" THEN Classified("Default", NoType)
    ELSE IF v.ty.kind = "Path"
    THEN LET segment == v.ty.segs[1]
         IN  IF segment.ident = "Option" THEN Wrapped("Optional", segment)
             ELSE IF segment.ident = "Stream" THEN Wrapped("Stream", segment)
             ELSE IF segment.ident = "Vec" THEN Wrapped("Rows", segment)
             ELSE IF segment.ident \in FIELD_TYPES THEN Classified("Field", v.ty)
             ELSE Classified("Row", v.ty)
    ELSE Classified("Row", v.ty)

----------------------------------------------------------------------------
(* The query-string builder.                                               *)

Digits == <<"0", "1", "2", "3", "4", "5", "6", "7", "8", "9">>

\* format!("{i}") for an unsigned integer: its decimal digits
RECURSIVE FormatNat(_)
FormatNat(i) ==
    IF i < 10 THEN <<Digits[i + 1]>>
    ELSE FormatNat(i \div 10) \o <<Digits[(i % 10) + 1]>>

SelectFrom == <<"S", "E", "L", "E", "C", "T", " ", "*", " ", "F", "R", "O", "M", " ">>

\* a loop that pushes the comma after every placeholder, the last included
RECURSIVE PushWithTrailingComma(_, _, _)
PushWithTrailingComma(query, i, args) ==
    IF i > args THEN query
    ELSE PushWithTrailingComma(query \o <<"$">> \o FormatNat(i) \o <<",">>,
                               i + 1, args)

\* the body of `for i in 1..=args`, from iteration i on
RECURSIVE PushPlaceholders(_, _, _)
PushPlaceholders(query, i, args) ==
    IF i > args THEN query
    ELSE LET pushed == query \o <<"$">> \o FormatNat(i)
         IN  PushPlaceholders(IF i < args THEN pushed \o <<",">> ELSE pushed,
                              i + 1, args)

query_for_fn(name, args) ==
    PushPlaceholders(SelectFrom \o name \o <<"(">>, 1, args) \o <<")">>

----------------------------------------------------------------------------
(* The result type of a generated method.                                  *)

Qualified(first, second, ty) ==
    Path(<<Segment(first, NoArgs),
           Segment(second, AngleBracketed(<<TypeArg(ty)>>))>>)

Qualified3(first, second, third, ty) ==
    Path(<<Segment(first, NoArgs), Segment(second, NoArgs),
           Segment(third, AngleBracketed(<<TypeArg(ty)>>))>>)

SqlxResult(ty) == Qualified("sqlx", "Result", ty)

as_type(rt) ==
    CASE rt.tag = "Default"  -> SqlxResult(UnitType)
      [] rt.tag = "Field"    -> SqlxResult(rt.ty)
      [] rt.tag = "Optional" -> SqlxResult(Qualified3("std", "option", "Option", rt.ty))
      [] rt.tag = "Stream"   -> Qualified3("futures", "stream", "BoxStream", SqlxResult(rt.ty))
      [] rt.tag = "Rows"     -> SqlxResult(Qualified3("std", "vec", "Vec", rt.ty))
      [] rt.tag = "Row"      -> SqlxResult(rt.ty)

----------------------------------------------------------------------------
(* Statements of a generated body. form is the statement's syntax:         *)
(* "let mut query" and "let row" are let-bindings, "semi" an expression    *)
(* statement ended by `;`, "tail" the block's final expression.            *)

Stmt(form, call, executor, await, try) ==
    [form |-> form, call |-> call, text |-> <<>>, var |-> "", ty |-> NoType,
     executor |-> executor, await |-> await, try |-> try]

\* let mut query = ::sqlx::#query(#query_string);
QueryStmt(query, query_string) ==
    [Stmt("let mut query", query, "", FALSE, FALSE) EXCEPT !.text = query_string]

\* let mut query = query.bind(#var);
BindStmt(var) ==
    [Stmt("let mut query", "bind", "", FALSE, FALSE) EXCEPT !.var = var]

\* let row: (#ty,) = query.fetch_one(#executor).await?;
RowStmt(ty, executor) ==
    [Stmt("let row", "fetch_one", executor, TRUE, TRUE) EXCEPT !.ty = ty]

\* Ok(#var)
OkExpr(var) == [Stmt("tail", "Ok", "", FALSE, FALSE) EXCEPT !.var = var]

\* a dispatch that sends Optional to fetch_one
LastOptionalAsOne(return_type, executor) ==
    CASE return_type.tag = "Default" ->
            <<Stmt("semi", "fetch_one", executor, TRUE, TRUE), OkExpr("()")>>
      [] return_type.tag = "Field" ->
            <<RowStmt(return_type.ty, executor), OkExpr("row.0")>>
      [] return_type.tag \in {"Row", "Optional"} ->
            <<Stmt("tail", "fetch_one", executor, TRUE, FALSE)>>
      [] return_type.tag = "Rows" ->
            <<Stmt("tail", "fetch_all", executor, TRUE, FALSE)>>
      [] return_type.tag = "Stream" ->
            <<Stmt("tail", "fetch", executor, FALSE, FALSE)>>

\* the statements that `match return_type` pushes, the final expression last
Last(return_type, executor) ==
    CASE return_type.tag = "Default" ->
            <<Stmt("semi", "fetch_one", executor, TRUE, TRUE), OkExpr("()")>>
      [] return_type.tag = "Field" ->
            <<RowStmt(return_type.ty, executor), OkExpr("row.0")>>
      [] return_type.tag = "Row" ->
            <<Stmt("tail", "fetch_one", executor, TRUE, FALSE)>>
      [] return_type.tag = "Rows" ->
            <<Stmt("tail", "fetch_all", executor, TRUE, FALSE)>>
      [] return_type.tag = "Optional" ->
            <<Stmt("tail", "fetch_optional", executor, TRUE, FALSE)>>
      [] return_type.tag = "Stream" ->
            <<Stmt("tail", "fetch", executor, FALSE, FALSE)>>

\* a signature that stays async whatever the return type
AsyncnessKept(return_type) == TRUE

\* function.sig.asyncness: `pub async fn`, cleared for a Stream
Asyncness(return_type) == return_type.tag # "Stream"

\* a receiver that ignores is_mut
ReceiverShared(is_mut) == "&self"

\* the receiver make_fn writes for is_mut
ReceiverFor(is_mut) == IF is_mut THEN "&mut self" ELSE "&self"

\* ::sqlx::query for a declaration without return type, else ::sqlx::query_as
QueryIdent(return_type) ==
    IF return_type.tag = "Default" THEN "query" ELSE "query_as"

\* the binds pushed in reverse order of the parameters
BindsReversed(args) ==
    [i \in 1..Len(args) |-> BindStmt(args[Len(args) + 1 - i].pat.ident)]

\* the statements of `for arg in args`, in the order of the loop
Binds(args) == [i \in 1..Len(args) |-> BindStmt(args[i].pat.ident)]

Generated(fn) == [ok |-> TRUE, fn |-> fn, msg |-> ""]

Aborted(msg) == [ok |-> FALSE, fn |-> <<>>, msg |-> msg]

\* the method make_fn returns when nothing panics
MethodOf(sql_fn, return_type, is_mut, executor) ==
    [name      |-> sql_fn.name,
     generics  |-> sql_fn.generics,
     asyncness |-> Asyncness(return_type),
     receiver  |-> ReceiverFor(is_mut),
     inputs    |-> sql_fn.args,
     output    |-> as_type(return_type),
     stmts     |-> <<QueryStmt(QueryIdent(return_type),
                               query_for_fn(sql_fn.name, Len(sql_fn.args)))>>
                   \o Binds(sql_fn.args)
                   \o Last(return_type, executor)]

\* a make_fn that binds whatever the pattern is instead of panicking
make_fn_any_pattern(sql_fn, is_mut, executor) ==
    LET return_type == From(sql_fn.output)
    IN  IF ~return_type.ok THEN Aborted(return_type.msg)
        ELSE Generated(MethodOf(sql_fn, return_type, is_mut, executor))

make_fn(sql_fn, is_mut, executor) ==
    LET return_type == From(sql_fn.output)
    IN  IF ~return_type.ok THEN Aborted(return_type.msg)
        ELSE IF \E i \in 1..Len(sql_fn.args) : sql_fn.args[i].pat.k # "Ident"
        THEN Aborted("Only identifier patterns are supported for arguments")
        ELSE Generated(MethodOf(sql_fn, return_type, is_mut, executor))

----------------------------------------------------------------------------
(* Tokens of the macro input. A type is one token: syn's type grammar is   *)
(* not modelled, only where a type is expected and whether one is there.   *)

Tok(t) == [t |-> t, name |-> <<>>, generics |-> "", args |-> <<>>, ty |-> NoType]

IdentTok(name) == [Tok("Ident") EXCEPT !.name = name]

GenericsTok(generics) == [Tok("Generics") EXCEPT !.generics = generics]

ParenTok(args) == [Tok("Paren") EXCEPT !.args = args]

ArrowTok == Tok("Arrow")

TypeTok(ty) == [Tok("Type") EXCEPT !.ty = ty]

SemiTok == Tok("Semi")

\* one written parameter: a pattern, the colon (when written) and a type
Arg(pat, colon, ty) == [pat |-> pat, colon |-> colon, ty |-> ty]

PatIdent(ident) == [k |-> "Ident", ident |-> ident]

PatOther(k) == [k |-> k, ident |-> ""]

----------------------------------------------------------------------------
(* The declaration parser.                                                 *)

Parsed(fn, rest) == [ok |-> TRUE, fn |-> fn, rest |-> rest, msg |-> ""]

SyntaxError(msg) == [ok |-> FALSE, fn |-> <<>>, rest |-> <<>>, msg |-> msg]

At(toks, t) == toks # <<>> /\ Head(toks).t = t

\* PatType of a written parameter
PatTypeOf(arg) == [pat |-> arg.pat, ty |-> arg.ty]

\* a return-type parser that takes an arrow without a type for no return type
ParseReturnTypeLenient(toks) ==
    IF At(toks, "Arrow")
    THEN IF At(Tail(toks), "Type")
         THEN Parsed(SynType(toks[2].ty), Tail(Tail(toks)))
         ELSE Parsed(SynDefault, Tail(toks))
    ELSE Parsed(SynDefault, toks)

\* syn::ReturnType::parse: an arrow must be followed by a type; without an
\* arrow the return type is Default and nothing is consumed
ParseReturnType(toks) ==
    IF At(toks, "Arrow")
    THEN IF At(Tail(toks), "Type")
         THEN Parsed(SynType(toks[2].ty), Tail(Tail(toks)))
         ELSE SyntaxError("expected a type")
    ELSE Parsed(SynDefault, toks)

\* content.parse_terminated(PatType::parse, Token![,])
ParseArgs(content) ==
    IF \E i \in 1..Len(content) : ~content[i].colon
    THEN SyntaxError("expected a colon")
    ELSE Parsed([i \in 1..Len(content) |-> PatTypeOf(content[i])], <<>>)

\* <SqlFn as Parse>::parse
ParseSqlFn(toks) ==
    IF ~At(toks, "Ident") THEN SyntaxError("expected identifier")
    ELSE
    LET name     == Head(toks).name
        hasGen   == At(Tail(toks), "Generics")
        generics == IF hasGen THEN toks[2].generics ELSE ""
        afterGen == IF hasGen THEN Tail(Tail(toks)) ELSE Tail(toks)
    IN  IF ~At(afterGen, "Paren") THEN SyntaxError("expected parentheses")
        ELSE
        LET args == ParseArgs(Head(afterGen).args)
            out  == ParseReturnType(Tail(afterGen))
        IN  IF ~args.ok THEN args
            ELSE IF ~out.ok THEN out
            ELSE IF ~At(out.rest, "Semi") THEN SyntaxError("expected a semicolon")
            ELSE Parsed([name |-> name, generics |-> generics,
                         args |-> args.fn, output |-> out.fn],
                        Tail(out.rest))

----------------------------------------------------------------------------
(* The entry points.                                                       *)

IsMut(e) == e = "transaction"

\* the executor expression each entry point hands to make_fn
Executor(e) == IF e = "transaction" THEN "&mut *self.inner" ELSE "&self.pool"

Method(name, asyncness, receiver) ==
    [name |-> name, generics |-> "", asyncness |-> asyncness,
     receiver |-> receiver, inputs |-> <<>>, output |-> NoType, stmts |-> <<>>]

\* imp.items as written in the impl block, before the generated methods
Scaffold(e) ==
    IF e = "transaction"
    THEN <<Method(<<"c", "o", "m", "m", "i", "t">>, TRUE, "self"),
           Method(<<"r", "o", "l", "l", "b", "a", "c", "k">>, TRUE, "self")>>
    ELSE <<Method(<<"n", "e", "w">>, FALSE, ""),
           Method(<<"c", "l", "o", "s", "e">>, TRUE, "&self")>>

NoOutput == [kind |-> "none", decl |-> "", items |-> <<>>]

\* parse_macro_input! returns the error as a compile_error! invocation
CompileError == [kind |-> "compile_error", decl |-> "", items |-> <<>>]

\* a panic unwinds out of the macro: no TokenStream is returned
Panicked == [kind |-> "panic", decl |-> "", items |-> <<>>]

\* quote! { #decl #imp }
Quoted(e, its) ==
    [kind |-> "tokens",
     decl |-> IF e = "transaction" THEN "Transaction" ELSE "Database",
     items |-> its]

----------------------------------------------------------------------------
(* Inputs.                                                                 *)

F == <<"f">>

F1 == <<"f", "1">>

GetUser == <<"g", "e", "t", "_", "u", "s", "e", "r">>

\* declaration names given to query_for_fn on its own
Names == {F, F1, GetUser, <<"_", "x">>, <<"l", "i", "s", "t", "_", "o", "r", "d", "e", "r", "s">>}

User == Named("User")

StdOption ==
    Path(<<Segment("std", NoArgs), Segment("option", NoArgs),
           Segment("Option", AngleBracketed(<<TypeArg(User)>>))>>)

\* first-segment names, argument lists and later segments the classifier is tried on
HeadIdents == {"Option", "Stream", "Vec", "User", "std"} \cup FIELD_TYPES

ArgForms ==
    {NoArgs, Parenthesized, AngleBracketed(<<>>),
     AngleBracketed(<<LifetimeArg>>),
     AngleBracketed(<<LifetimeArg, TypeArg(User)>>),
     AngleBracketed(<<TypeArg(User)>>),
     AngleBracketed(<<TypeArg(Named("i64")), TypeArg(User)>>),
     AngleBracketed(<<TypeArg(Generic("Vec", User))>>)}

LaterSegments ==
    {<<>>,
     <<Segment("option", NoArgs), Segment("Option", AngleBracketed(<<TypeArg(User)>>))>>,
     <<Segment("vec", NoArgs), Segment("Vec", AngleBracketed(<<TypeArg(User)>>))>>,
     <<Segment("Stream", AngleBracketed(<<TypeArg(User)>>))>>,
     <<Segment("i64", NoArgs)>>}

PathTypes ==
    {Path(<<Segment(i, a)>> \o r) : i \in HeadIdents, a \in ArgForms, r \in LaterSegments}

OtherTypes == {OtherType(k) : k \in {"Tuple", "Reference", "Array", "Slice", "Paren"}}

SynReturnTypes == {SynDefault} \cup {SynType(t) : t \in PathTypes \cup OtherTypes}

\* return types written in the declarations handed to the entry points
DeclTypes ==
    {Generic("Option", User), Generic("Stream", Named("Event")),
     Generic("Vec", Named("Order")), Named("i64"), Named("String"), User,
     StdOption, OtherType("Tuple"),
     Named("Option"),
     Path(<<Segment("Vec", AngleBracketed(<<LifetimeArg>>))>>),
     Path(<<Segment("Stream", AngleBracketed(<<>>))>>)}

Tails ==
    {<<SemiTok>>, <<ArrowTok, SemiTok>>, <<>>, <<ArrowTok, TypeTok(User)>>}
    \cup {<<ArrowTok, TypeTok(t), SemiTok>> : t \in DeclTypes}

A == Arg(PatIdent("a"), TRUE, "i64")

B == Arg(PatIdent("b"), TRUE, "String")

ArgLists ==
    {<<>>, <<A>>, <<A, B>>, <<B, A>>,
     <<Arg(PatOther("Tuple"), TRUE, "(i64, i64)")>>,
     <<A, Arg(PatOther("Wild"), TRUE, "i64")>>,
     <<A, Arg(PatIdent("b"), FALSE, "")>>}

DeclText(name, generics, args, tail) ==
    <<IdentTok(name)>>
    \o (IF generics = "" THEN <<>> ELSE <<GenericsTok(generics)>>)
    \o <<ParenTok(args)>> \o tail

Decls ==
    {DeclText(F, "", <<>>, t) : t \in Tails}
    \cup {DeclText(GetUser, "", a, t) :
            a \in ArgLists,
            t \in {<<SemiTok>>, <<ArrowTok, TypeTok(Generic("Vec", Named("Order"))), SemiTok>>}}
    \cup {DeclText(F1, "<T>", <<A>>, <<ArrowTok, TypeTok(Named("i64")), SemiTok>>),
          <<IdentTok(F), SemiTok>>}

DeclLists == UNION {[1..n -> Decls] : n \in 0..MaxDecls}

RECURSIVE Flatten(_)
Flatten(list) == IF list = <<>> THEN <<>> ELSE Head(list) \o Flatten(Tail(list))

NoShape == [ok |-> FALSE, tag |-> "None", ty |-> NoType, msg |-> ""]

----------------------------------------------------------------------------
(* Macro expansion: database!{...} or transaction!{...} on a declaration   *)
(* list.                                                                   *)

Idle ==
    /\ qName = <<>> /\ qArgs = 0 /\ qOut = <<>>
    /\ value = SynDefault /\ shape = NoShape

Init ==
    /\ pc = "parse"
    /\ entry \in {"database", "transaction"}
    /\ decls \in DeclLists
    /\ input = Flatten(decls)
    /\ functions = <<>>
    /\ items = <<>>
    /\ output = NoOutput
    /\ Idle

\* one iteration of `while !input.is_empty()`; an error ends the expansion
ParseFn ==
    /\ pc = "parse"
    /\ input # <<>>
    /\ LET r == ParseSqlFn(input)
       IN  IF r.ok
           THEN /\ functions' = Append(functions, r.fn)
                /\ input' = r.rest
                /\ UNCHANGED <<pc, output>>
           ELSE /\ pc' = "done"
                /\ output' = CompileError
                /\ UNCHANGED <<functions, input>>
    /\ UNCHANGED <<entry, decls, items, qName, qArgs, qOut, value, shape>>

\* the loop ends, the entry point builds its struct and impl block
ParseEnd ==
    /\ pc = "parse"
    /\ input = <<>>
    /\ pc' = "generate"
    /\ items' = Scaffold(entry)
    /\ UNCHANGED <<entry, decls, input, functions, output,
                   qName, qArgs, qOut, value, shape>>

\* one iteration of `for function in db.functions`; a panic ends the expansion
PushFn ==
    /\ pc = "generate"
    /\ functions # <<>>
    /\ LET m == make_fn(Head(functions), IsMut(entry), Executor(entry))
       IN  IF m.ok
           THEN /\ items' = Append(items, m.fn)
                /\ functions' = Tail(functions)
                /\ UNCHANGED <<pc, output>>
           ELSE /\ pc' = "done"
                /\ output' = Panicked
                /\ UNCHANGED <<functions, items>>
    /\ UNCHANGED <<entry, decls, input, qName, qArgs, qOut, value, shape>>

\* quote! and return
Finish ==
    /\ pc = "generate"
    /\ functions = <<>>
    /\ pc' = "done"
    /\ output' = Quoted(entry, items)
    /\ UNCHANGED <<entry, decls, input, functions, items,
                   qName, qArgs, qOut, value, shape>>

Next == ParseFn \/ ParseEnd \/ PushFn \/ Finish

Spec == Init /\ [][Next]_vars

----------------------------------------------------------------------------
(* query_for_fn on its own.                                                *)

NoExpansion ==
    /\ entry = "database" /\ decls = <<>> /\ input = <<>>
    /\ functions = <<>> /\ items = <<>> /\ output = NoOutput

InitQuery ==
    /\ pc = "query"
    /\ qName \in Names
    /\ qArgs \in 0..MaxArity
    /\ qOut = <<>>
    /\ value = SynDefault /\ shape = NoShape
    /\ NoExpansion

BuildQuery ==
    /\ pc = "query"
    /\ qOut' = query_for_fn(qName, qArgs)
    /\ pc' = "built"
    /\ UNCHANGED <<entry, decls, input, functions, items, output,
                   qName, qArgs, value, shape>>

NextQuery == BuildQuery

SpecQuery == InitQuery /\ [][NextQuery]_vars

----------------------------------------------------------------------------
(* ReturnType::from on its own.                                            *)

InitClassify ==
    /\ pc = "from"
    /\ value \in SynReturnTypes
    /\ shape = NoShape
    /\ qName = <<>> /\ qArgs = 0 /\ qOut = <<>>
    /\ NoExpansion

Classify ==
    /\ pc = "from"
    /\ shape' = From(value)
    /\ pc' = "classified"
    /\ UNCHANGED <<entry, decls, input, functions, items, output,
                   qName, qArgs, qOut, value>>

NextClassify == Classify

SpecClassify == InitClassify /\ [][NextClassify]_vars

----------------------------------------------------------------------------
(* Properties of query_for_fn, checked under SpecQuery.                    *)

IsDigit(c) == \E d \in 1..10 : Digits[d] = c

DigitValue(c) == (CHOOSE d \in 1..10 : Digits[d] = c) - 1

\* the number a digit string denotes
RECURSIVE DecimalValue(_)
DecimalValue(ds) ==
    IF Len(ds) = 0 THEN 0
    ELSE 10 * DecimalValue(SubSeq(ds, 1, Len(ds) - 1)) + DigitValue(ds[Len(ds)])

\* ds is the decimal numeral of i, without leading zero
IsNumeral(ds, i) ==
    /\ Len(ds) > 0
    /\ \A k \in 1..Len(ds) : IsDigit(ds[k])
    /\ Len(ds) > 1 => ds[1] # "0"
    /\ DecimalValue(ds) = i

\* the pieces of s between its commas
RECURSIVE SplitAtCommas(_)
SplitAtCommas(s) ==
    IF \E k \in 1..Len(s) : s[k] = ","
    THEN LET k == CHOOSE k \in 1..Len(s) :
                     s[k] = "," /\ \A j \in 1..(k - 1) : s[j] # ","
         IN  <<SubSeq(s, 1, k - 1)>> \o SplitAtCommas(SubSeq(s, k + 1, Len(s)))
    ELSE <<s>>

Count(s, c) == Cardinality({k \in 1..Len(s) : s[k] = c})

\* what stands between the parentheses of a statement text built for name
Between(text, name) == SubSeq(text, Len(SelectFrom) + Len(name) + 2, Len(text) - 1)

\* text is 'SELECT * FROM <name>($1,$2,...,$n)'
IsCallText(text, name, n) ==
    LET open == Len(SelectFrom) + Len(name) + 1
        list == Between(text, name)
        ps   == SplitAtCommas(list)
    IN  /\ Len(text) >= open + 1
        /\ SubSeq(text, 1, Len(SelectFrom)) = SelectFrom
        /\ SubSeq(text, Len(SelectFrom) + 1, open - 1) = name
        /\ text[open] = "("
        /\ text[Len(text)] = ")"
        /\ Count(list, "$") = n
        /\ IF n = 0 THEN list = <<>>
           ELSE /\ Len(ps) = n
                /\ list[Len(list)] # ","
                /\ \A i \in 1..n : /\ Len(ps[i]) >= 2
                                   /\ ps[i][1] = "$"
                                   /\ IsNumeral(Tail(ps[i]), i)

\* C1: for every name and arity N, query_for_fn returns 'SELECT * FROM <name>('
\* followed by $1,...,$N in increasing order separated by single commas and
\* then ')': exactly N placeholders, no comma after the last one, and an
\* empty parenthesis pair when N = 0.
C1_QueryText == pc = "built" => IsCallText(qOut, qName, qArgs)

C1_Witness == pc = "built" /\ qArgs >= 10 /\ Len(qOut) > Len(qName) + 40

----------------------------------------------------------------------------
(* Properties of the classifier, checked under SpecClassify.               *)

Tags == {"Default", "Field", "Row", "Rows", "Optional", "Stream"}

IsPath(v) == v.k = "Type" /\ v.ty.kind = "Path"

\* the name the classifier reads: the first segment of a path type
HeadName(v) == v.ty.segs[1].ident

HeadArgs(v) == v.ty.segs[1].arguments

Wrappers == {"Option", "Stream", "Vec"}

\* the first segment carries <T, ...> with a type T first
HasTypeArgument(v) ==
    /\ HeadArgs(v).k = "AngleBracketed"
    /\ Len(HeadArgs(v).args) > 0
    /\ HeadArgs(v).args[1].k = "Type"

\* a wrapper name without a usable type argument
BrokenWrapper(v) == IsPath(v) /\ HeadName(v) \in Wrappers /\ ~HasTypeArgument(v)

FirstArgument(v) == HeadArgs(v).args[1].ty

C10_FirstSegmentOnly ==
    pc = "classified" =>
        /\ (value.k = "Type" /\
            (~IsPath(value) \/ HeadName(value) \notin Wrappers \cup FIELD_TYPES)) =>
              /\ shape = Classified("Row", value.ty)
              /\ LET out == as_type(shape)
                     last == Last(shape, "&self.pool")
                 IN  /\ out.segs[Len(out.segs)].ident = "Result"
                     /\ out.segs[Len(out.segs)].arguments.args = <<TypeArg(value.ty)>>
                     /\ Len(last) = 1 /\ last[1].call = "fetch_one"
        /\ (IsPath(value) /\ HeadName(value) \in FIELD_TYPES) =>
              shape = Classified("Field", value.ty)

C10_Witness ==
    /\ pc = "classified" /\ value = SynType(StdOption) /\ shape.tag = "Row"

----------------------------------------------------------------------------
(* Properties of the expansion, checked under Spec. A declaration is read  *)
(* as written, from its tokens.                                            *)

HasTok(d, t) == \E i \in 1..Len(d) : d[i].t = t

TokOf(d, t) == d[CHOOSE i \in 1..Len(d) : d[i].t = t]

\* the declaration is name, optional generics, a parameter list in which
\* every parameter is pattern-colon-type, optionally an arrow and a type,
\* and the terminating semicolon
WellFormedText(d) ==
    /\ \E g \in {<<>>, <<"Generics">>}, r \in {<<>>, <<"Arrow", "Type">>} :
          [i \in 1..Len(d) |-> d[i].t] = <<"Ident">> \o g \o <<"Paren">> \o r \o <<"Semi">>
    /\ \A i \in 1..Len(TokOf(d, "Paren").args) : TokOf(d, "Paren").args[i].colon

WrittenName(d) == d[1].name

WrittenArgs(d) == TokOf(d, "Paren").args

\* the return type as written (Default without an arrow)
Written(d) == IF HasTok(d, "Arrow") THEN SynType(TokOf(d, "Type").ty) ELSE SynDefault

BadPattern(d) == \E i \in 1..Len(WrittenArgs(d)) : WrittenArgs(d)[i].pat.k # "Ident"

Defective(d) == ~WellFormedText(d) \/ BadPattern(d) \/ BrokenWrapper(Written(d))

\* the generated methods among the items: those after the scaffold's two
Methods(its) == SubSeq(its, 3, Len(its))

Fetches == {"fetch_one", "fetch_all", "fetch_optional", "fetch", "execute"}

\* positions of the statements of m that run the query
Terminals(m) == {j \in 1..Len(m.stmts) : m.stmts[j].call \in Fetches}

Terminal(m) == m.stmts[CHOOSE j \in Terminals(m) : TRUE]

\* the type argument of the last segment of a path type
Inner(ty) == ty.segs[Len(ty.segs)].arguments.args[1].ty

Outer(ty) == ty.segs[Len(ty.segs)].ident

\* C3: the statements of a generated method are: the construction of the
\* statement from the built query string, then exactly N binds, the i-th of
\* parameter i as declared, then the terminal call; no parameter is bound
\* twice, skipped, or bound after the terminal call.
C3_BindOrder ==
    \A k \in 1..Len(Methods(items)) :
        LET m == Methods(items)[k]
            ps == WrittenArgs(decls[k])
            n == Len(ps)
        IN  /\ Len(m.stmts) >= n + 2
            /\ m.stmts[1].call \in {"query", "query_as"}
            /\ IsCallText(m.stmts[1].text, WrittenName(decls[k]), n)
            /\ \A i \in 1..n : /\ m.stmts[i + 1].call = "bind"
                               /\ m.stmts[i + 1].var = ps[i].pat.ident
            /\ Terminals(m) = {n + 2}
            /\ \A j \in 1..Len(m.stmts) :
                  m.stmts[j].call \in {"bind", "query", "query_as"} => j <= n + 1

C3_Witness ==
    /\ pc = "done" /\ output.kind = "tokens"
    /\ \E k \in 1..Len(Methods(output.items)) :
          LET m == Methods(output.items)[k]
          IN  /\ Len(m.inputs) = 2
              /\ m.stmts[2].var = "b" /\ m.stmts[3].var = "a"
              /\ m.stmts[4].call = "fetch_all"

\* C4: a method generated for a declaration without return type ends in
\* execute-without-result, not in a record fetch, so that it does not fail
\* when the invoked function returns zero records.
C4_VoidExecutes ==
    \A k \in 1..Len(Methods(items)) :
        Written(decls[k]).k = "Default" =>
            Terminal(Methods(items)[k]).call = "execute"

\* C5: a method of a declaration with a return type has exactly one
\* terminal call, and its result type mirrors it: Scalar -> one tuple-shaped
\* record fetched and its single field returned, Result<T>; Row -> one record,
\* Result<T>; Many -> all records, Result<Vec<T>>; Optional -> at most one
\* record, Result<Option<T>>; Stream -> lazy fetch, a stream of Result<T>.
C5_Dispatch ==
    \A k \in 1..Len(Methods(items)) :
        LET m == Methods(items)[k]
            w == Written(decls[k])
            n == Len(m.inputs)
            rest == SubSeq(m.stmts, n + 2, Len(m.stmts))
            tag == IF ~IsPath(w) THEN "Row"
                   ELSE IF HeadName(w) = "Option" THEN "Optional"
                   ELSE IF HeadName(w) = "Stream" THEN "Stream"
                   ELSE IF HeadName(w) = "Vec" THEN "Rows"
                   ELSE IF HeadName(w) \in FIELD_TYPES THEN "Field"
                   ELSE "Row"
        IN  w.k = "Type" =>
            /\ Cardinality(Terminals(m)) = 1
            /\ tag = "Field" =>
                  /\ Len(rest) = 2
                  /\ rest[1].form = "let row" /\ rest[1].call = "fetch_one"
                  /\ rest[1].ty = w.ty
                  /\ rest[2].form = "tail" /\ rest[2].call = "Ok" /\ rest[2].var = "row.0"
                  /\ Outer(m.output) = "Result" /\ Inner(m.output) = w.ty
            /\ tag = "Row" =>
                  /\ Len(rest) = 1
                  /\ rest[1].form = "tail" /\ rest[1].call = "fetch_one"
                  /\ Outer(m.output) = "Result" /\ Inner(m.output) = w.ty
            /\ tag = "Rows" =>
                  /\ Len(rest) = 1
                  /\ rest[1].form = "tail" /\ rest[1].call = "fetch_all"
                  /\ Outer(m.output) = "Result" /\ Outer(Inner(m.output)) = "Vec"
                  /\ Inner(Inner(m.output)) = FirstArgument(w)
            /\ tag = "Optional" =>
                  /\ Len(rest) = 1
                  /\ rest[1].form = "tail" /\ rest[1].call = "fetch_optional"
                  /\ Outer(m.output) = "Result" /\ Outer(Inner(m.output)) = "Option"
                  /\ Inner(Inner(m.output)) = FirstArgument(w)
            /\ tag = "Stream" =>
                  /\ Len(rest) = 1
                  /\ rest[1].form = "tail" /\ rest[1].call = "fetch"
                  /\ Outer(m.output) = "BoxStream" /\ Outer(Inner(m.output)) = "Result"
                  /\ Inner(Inner(m.output)) = FirstArgument(w)

C5_Witness ==
    /\ pc = "done" /\ output.kind = "tokens"
    /\ \E k \in 1..Len(Methods(output.items)) :
          /\ Written(decls[k]) = SynType(Generic("Option", User))
          /\ Terminal(Methods(output.items)[k]).call = "fetch_optional"

\* C6: a generated method is async and awaits its terminal call if and only
\* if it is not a Stream method; a Stream method is not async and returns the
\* lazy sequence without awaiting it.
C6_AsyncUnlessStream ==
    \A k \in 1..Len(Methods(items)) :
        LET m == Methods(items)[k]
            w == Written(decls[k])
            stream == IsPath(w) /\ HeadName(w) = "Stream"
        IN  /\ m.asyncness <=> ~stream
            /\ Terminal(m).await <=> ~stream
            /\ stream => Terminal(m).form = "tail" /\ ~Terminal(m).try

C6_Witness ==
    /\ pc = "done" /\ output.kind = "tokens"
    /\ \E k \in 1..Len(Methods(output.items)) :
          LET m == Methods(output.items)[k]
          IN  ~m.asyncness /\ Terminal(m).call = "fetch" /\ ~Terminal(m).await

\* the declarations that stand before the first one satisfying Bad
Before(list, Bad(_)) ==
    Cardinality({k \in 1..Len(list) : \A j \in 1..k : ~Bad(list[j])})

Malformed(d) == ~WellFormedText(d)

Unsupported(d) == BadPattern(d) \/ BrokenWrapper(Written(d))

\* C7: generation is all-or-nothing. If any declaration is defective
\* (malformed or without its semicolon, a parameter pattern that is not a
\* plain identifier, a return type Option/Vec/Stream without a type argument)
\* the expansion stops at the first defect it meets - the parser at the first
\* malformed declaration, else the generator at the first declaration it
\* cannot generate - and emits no method at all, not even for the valid
\* declarations before the defect; otherwise it emits one method for every
\* declaration. Nothing is emitted before the expansion has ended.
C7_AllOrNothing ==
    /\ pc # "done" => output = NoOutput
    /\ pc = "done" =>
          IF \E k \in 1..Len(decls) : Defective(decls[k])
          THEN /\ output.kind \in {"compile_error", "panic"}
               /\ output.items = <<>>
               /\ output.kind = "compile_error" <=>
                     \E k \in 1..Len(decls) : Malformed(decls[k])
               /\ output.kind = "compile_error" =>
                     Len(functions) = Before(decls, Malformed)
               /\ output.kind = "panic" =>
                     Len(Methods(items)) = Before(decls, Unsupported)
          ELSE /\ output.kind = "tokens"
               /\ Len(Methods(output.items)) = Len(decls)

C7_Witness ==
    /\ pc = "done" /\ output.kind = "panic" /\ output.items = <<>>
    /\ Len(decls) = 2 /\ ~Defective(decls[1]) /\ BadPattern(decls[2])
    /\ Len(Methods(items)) = 1

BareArrow == DeclText(F, "", <<>>, <<ArrowTok, SemiTok>>)

NoArrow == DeclText(F, "", <<>>, <<SemiTok>>)

SelectFromF == SelectFrom \o <<"f", "(", ")">>

\* the one generated method constructs 'SELECT * FROM f()', binds nothing
\* and ends with Ok(())
VoidMethodOfF(out) ==
    /\ out.kind = "tokens"
    /\ Len(Methods(out.items)) = 1
    /\ LET m == Methods(out.items)[1]
       IN  /\ m.name = F
           /\ m.stmts[1].text = SelectFromF
           /\ \A j \in 1..Len(m.stmts) : m.stmts[j].call # "bind"
           /\ m.stmts[Len(m.stmts)].call = "Ok"
           /\ m.stmts[Len(m.stmts)].var = "()"
           /\ Outer(m.output) = "Result" /\ Inner(m.output) = UnitType

====
